---- MODULE Spec2Model ----
(***************************************************************************)
(* State-machine model of the strongbox contract (src/src/contract.rs,     *)
(* state.rs, viewing_key.rs, msg.rs).  One action per entry point call;    *)
(* every handler is modelled whole, in the statement order of the source,  *)
(* against the two storage areas (the config singleton and the prefixed    *)
(* viewing-key store).  Hashing, encoding and key derivation are modelled  *)
(* symbolically: each is a tagged, collision-free constructor.             *)
(***************************************************************************)
EXTENDS Integers, Sequences, FiniteSets, TLC

\* ------------------------------------------------------------------ bounds
MaxHeight == 1
MaxInstantiations == 2

\* --------------------------------------------------------------- constants
INITIAL_SEED_LEN == 32
ENTROPY_LEN == 20
VIEWING_KEY_PREFIX == "strongbox_key_"

\* Error messages, verbatim from the source.
ErrSeed == "You need to provide valid seed"
ErrNotAllowed == "You are not allowed"
ErrEntropy == "You need to provide valid entropy"
ErrDuplicate == "You need to use another entropy"
ErrNoKey == "Viewing key not exists"
ErrNoMatch == "Your viewing key does not matched"
\* Errors raised by the host API / storage helpers and propagated with `?`.
ErrCanonicalize == "addr_canonicalize errored"
ErrNotFound == "State not found"

\* ------------------------------------------------------------------ inputs
\* info.sender is supplied by the host and always canonicalizes.
Senders == {"creator", "creator2"}
\* Addr fields of messages are unchecked; "u" is rejected by addr_canonicalize.
Addrs == Senders \cup {"user1", "u"}
SeedInputs == {"r5ypLSFsvpFYFfbfv05USo7wMlFjvoGh", "init strongbox"}
EntropyInputs == {"2418D8fZhQs8jIzuhiZ8", "9f3kQ0aLmZx71TbVwYc2", "supbro"}
StrongboxInputs == {"Test strongbox", "hello"}
Envs == {[height |-> h, time |-> 1571797419 + h] : h \in 1..MaxHeight}

\* ------------------------------------------------------- host primitives
\* deps.api.addr_canonicalize: partial, injective, not the identity.
addr_canonicalize_ok(a) == Len(a) >= 3
addr_canonicalize(a) == <<"canon", a>>

\* secret_toolkit_crypto::sha_256, as a collision-free tagged digest.
sha_256(x) == <<"sha256", x>>
\* base64 STANDARD.encode
b64_encode(x) == <<"b64", x>>
\* cosmwasm_std::to_binary
to_binary(x) == <<"bin", x>>
\* Prng::new(seed, entropy).rand_bytes()
rand_bytes(seed, rng_entropy) == <<"prng", seed, rng_entropy>>
\* u64::to_be_bytes
to_be_bytes(h) == <<0, 0, 0, 0, 0, 0, h \div 256, h % 256>>
\* Timestamp::to_string
time_to_string(t) == <<"ts", t>>

\* A string key supplied by a caller that was not produced by ViewingKey::new.
LiteralKey(s) == <<"lit", s>>
\* The candidate whose digest is the all-zero placeholder.
ZeroPreimage == LiteralKey("zero-preimage")
\* [0u8; VIEWING_KEY_SIZE]
ZeroHash == sha_256(ZeroPreimage)

\* --------------------------------------------------------- viewing_key.rs
ct_slice_compare(s1, s2) == s1 = s2

check_viewing_key(key, hashed_pw) == ct_slice_compare(sha_256(key), hashed_pw)

\* Mutant: the caller's entropy is left out of the generator's input.
ViewingKeyNew_NoEntropy(env, sender, seed, entropy) ==
    LET rng_entropy == <<to_be_bytes(env.height), time_to_string(env.time),
                         sender>>
        rand_slice == rand_bytes(seed, rng_entropy)
        key == sha_256(rand_slice)
    IN  <<VIEWING_KEY_PREFIX, b64_encode(key)>>

ViewingKeyNew(env, sender, seed, entropy) ==
    LET rng_entropy == <<to_be_bytes(env.height), time_to_string(env.time),
                         sender, entropy>>
        rand_slice == rand_bytes(seed, rng_entropy)
        key == sha_256(rand_slice)
    IN  <<VIEWING_KEY_PREFIX, b64_encode(key)>>

\* ------------------------------------------------------------------ state
VARIABLES
    config,        \* the singleton under CONFIG_KEY: <<>> or <<State>>
    viewing_keys,  \* the prefixed store: canonical address -> key hash
    last,          \* the last call: entry point and result
    issued,        \* history: the successful mints (viewer, key, entropy, owner)
    last_value,    \* history: the value of the last successful update
    instantiations, \* history: number of successful instantiate calls
    active,        \* history: canonical viewer -> key that was minted for it
                   \* last and not revoked since
    dead           \* history: keys that were revoked or overwritten

vars == <<config, viewing_keys, last, issued, last_value, instantiations,
          active, dead>>

\* ---------------------------------------------------------------- state.rs
State(owner, strongbox, serenity_seed, entropy_hashes) ==
    [owner |-> owner, strongbox |-> strongbox,
     serenity_seed |-> serenity_seed, entropy_hashes |-> entropy_hashes]

read_viewing_key(store, owner) ==
    IF owner \in DOMAIN store THEN <<store[owner]>> ELSE <<>>

\* Mutant: an existing entry is kept instead of being overwritten.
write_viewing_key_KeepFirst(store, owner, key) ==
    [a \in DOMAIN store \cup {owner} |->
        IF a \in DOMAIN store THEN store[a] ELSE sha_256(key)]

\* Mutant: the key itself is stored instead of its hash.
write_viewing_key_Plain(store, owner, key) ==
    [a \in DOMAIN store \cup {owner} |->
        IF a = owner THEN key ELSE store[a]]

write_viewing_key(store, owner, key) ==
    [a \in DOMAIN store \cup {owner} |->
        IF a = owner THEN sha_256(key) ELSE store[a]]

\* Mutant: the whole store is emptied.
revoke_viewing_key_All(store, owner) == <<>>

\* Mutant: the entry is not removed.
revoke_viewing_key_Keep(store, owner) == store

revoke_viewing_key(store, owner) ==
    [a \in DOMAIN store \ {owner} |-> store[a]]

\* ------------------------------------------------------------- results
Ok(data) == [ok |-> TRUE, err |-> "", data |-> data]
Err(msg) == [ok |-> FALSE, err |-> msg, data |-> <<>>]
Out(c, v, r) == [config |-> c, viewing_keys |-> v, res |-> r]

InSeq(x, s) == \E i \in 1..Len(s) : s[i] = x

\* -------------------------------------------------------------- contract.rs
\* Mutant: the seed length is not validated.
instantiate_NoLengthCheck(c, v, sender, serenity_seed) ==
    IF ~addr_canonicalize_ok(sender) THEN Out(c, v, Err(ErrCanonicalize))
    ELSE LET state == State(addr_canonicalize(sender), "",
                            sha_256(b64_encode(serenity_seed)), <<>>)
         IN  Out(<<state>>, v, Ok(<<>>))

instantiate(c, v, sender, serenity_seed) ==
    IF Len(serenity_seed) # INITIAL_SEED_LEN THEN Out(c, v, Err(ErrSeed))
    ELSE IF ~addr_canonicalize_ok(sender) THEN Out(c, v, Err(ErrCanonicalize))
    ELSE LET state == State(addr_canonicalize(sender), "",
                            sha_256(b64_encode(serenity_seed)), <<>>)
         IN  Out(<<state>>, v, Ok(<<>>))

\* Mutant: the owner check is missing.
try_update_strongbox_NoOwnerCheck(c, v, sender, strongbox) ==
    IF ~addr_canonicalize_ok(sender) THEN Out(c, v, Err(ErrCanonicalize))
    ELSE IF c = <<>> THEN Out(c, v, Err(ErrNotFound))
    ELSE Out(<<[c[1] EXCEPT !.strongbox = strongbox]>>, v, Ok(<<>>))

\* Mutant: the update also re-derives the seed from the new value.
try_update_strongbox_Reseed(c, v, sender, strongbox) ==
    IF ~addr_canonicalize_ok(sender) THEN Out(c, v, Err(ErrCanonicalize))
    ELSE IF c = <<>> THEN Out(c, v, Err(ErrNotFound))
    ELSE IF addr_canonicalize(sender) # c[1].owner
         THEN Out(c, v, Err(ErrNotAllowed))
    ELSE Out(<<[c[1] EXCEPT !.strongbox = strongbox,
                            !.serenity_seed = sha_256(b64_encode(strongbox))]>>,
             v, Ok(<<>>))

try_update_strongbox(c, v, sender, strongbox) ==
    IF ~addr_canonicalize_ok(sender) THEN Out(c, v, Err(ErrCanonicalize))
    ELSE IF c = <<>> THEN Out(c, v, Err(ErrNotFound))
    ELSE IF addr_canonicalize(sender) # c[1].owner
         THEN Out(c, v, Err(ErrNotAllowed))
    ELSE Out(<<[c[1] EXCEPT !.strongbox = strongbox]>>, v, Ok(<<>>))

\* Mutant: the owner check is missing.
try_create_viewing_key_NoOwnerCheck(c, v, env, sender, entropy, viewer) ==
    IF Len(entropy) # ENTROPY_LEN THEN Out(c, v, Err(ErrEntropy))
    ELSE IF c = <<>> THEN Out(c, v, Err(ErrNotFound))
    ELSE IF ~addr_canonicalize_ok(sender) THEN Out(c, v, Err(ErrCanonicalize))
    ELSE LET config_state == c[1]
             entropy_hash == to_binary(sha_256(entropy))
             duplicated == InSeq(entropy_hash, config_state.entropy_hashes)
         IN  IF duplicated THEN Out(c, v, Err(ErrDuplicate))
             ELSE LET c2 == <<[c[1] EXCEPT !.entropy_hashes =
                                   Append(@, entropy_hash)]>>
                      prng_seed == config_state.serenity_seed
                      key == ViewingKeyNew(env, addr_canonicalize(sender),
                                           prng_seed, entropy)
                  IN  IF ~addr_canonicalize_ok(viewer)
                      THEN Out(c2, v, Err(ErrCanonicalize))
                      ELSE Out(c2,
                               write_viewing_key(v, addr_canonicalize(viewer),
                                                 key),
                               Ok(to_binary(key)))

\* Mutant: the duplicate is looked for, but the entropy hash is not recorded.
try_create_viewing_key_ForgetsEntropy(c, v, env, sender, entropy, viewer) ==
    IF Len(entropy) # ENTROPY_LEN THEN Out(c, v, Err(ErrEntropy))
    ELSE IF c = <<>> THEN Out(c, v, Err(ErrNotFound))
    ELSE IF ~addr_canonicalize_ok(sender) THEN Out(c, v, Err(ErrCanonicalize))
    ELSE IF addr_canonicalize(sender) # c[1].owner
         THEN Out(c, v, Err(ErrNotAllowed))
    ELSE LET config_state == c[1]
             entropy_hash == to_binary(sha_256(entropy))
             duplicated == InSeq(entropy_hash, config_state.entropy_hashes)
         IN  IF duplicated THEN Out(c, v, Err(ErrDuplicate))
             ELSE LET prng_seed == config_state.serenity_seed
                      key == ViewingKeyNew(env, addr_canonicalize(sender),
                                           prng_seed, entropy)
                  IN  IF ~addr_canonicalize_ok(viewer)
                      THEN Out(c, v, Err(ErrCanonicalize))
                      ELSE Out(c,
                               write_viewing_key(v, addr_canonicalize(viewer),
                                                 key),
                               Ok(to_binary(key)))

\* Mutant: the owner is validated before the entropy length.
try_create_viewing_key_OwnerFirst(c, v, env, sender, entropy, viewer) ==
    IF c = <<>> THEN Out(c, v, Err(ErrNotFound))
    ELSE IF ~addr_canonicalize_ok(sender) THEN Out(c, v, Err(ErrCanonicalize))
    ELSE IF addr_canonicalize(sender) # c[1].owner
         THEN Out(c, v, Err(ErrNotAllowed))
    ELSE IF Len(entropy) # ENTROPY_LEN THEN Out(c, v, Err(ErrEntropy))
    ELSE LET config_state == c[1]
             entropy_hash == to_binary(sha_256(entropy))
             duplicated == InSeq(entropy_hash, config_state.entropy_hashes)
         IN  IF duplicated THEN Out(c, v, Err(ErrDuplicate))
             ELSE LET c2 == <<[c[1] EXCEPT !.entropy_hashes =
                                   Append(@, entropy_hash)]>>
                      prng_seed == config_state.serenity_seed
                      key == ViewingKeyNew(env, addr_canonicalize(sender),
                                           prng_seed, entropy)
                  IN  IF ~addr_canonicalize_ok(viewer)
                      THEN Out(c2, v, Err(ErrCanonicalize))
                      ELSE Out(c2,
                               write_viewing_key(v, addr_canonicalize(viewer),
                                                 key),
                               Ok(to_binary(key)))

\* Mutant: the entropy hash is recorded without looking for a duplicate.
try_create_viewing_key_NoDuplicateCheck(c, v, env, sender, entropy, viewer) ==
    IF Len(entropy) # ENTROPY_LEN THEN Out(c, v, Err(ErrEntropy))
    ELSE IF c = <<>> THEN Out(c, v, Err(ErrNotFound))
    ELSE IF ~addr_canonicalize_ok(sender) THEN Out(c, v, Err(ErrCanonicalize))
    ELSE IF addr_canonicalize(sender) # c[1].owner
         THEN Out(c, v, Err(ErrNotAllowed))
    ELSE LET config_state == c[1]
             entropy_hash == to_binary(sha_256(entropy))
             c2 == <<[c[1] EXCEPT !.entropy_hashes = Append(@, entropy_hash)]>>
             prng_seed == config_state.serenity_seed
             key == ViewingKeyNew(env, addr_canonicalize(sender), prng_seed,
                                  entropy)
         IN  IF ~addr_canonicalize_ok(viewer)
             THEN Out(c2, v, Err(ErrCanonicalize))
             ELSE Out(c2,
                      write_viewing_key(v, addr_canonicalize(viewer), key),
                      Ok(to_binary(key)))

try_create_viewing_key(c, v, env, sender, entropy, viewer) ==
    IF Len(entropy) # ENTROPY_LEN THEN Out(c, v, Err(ErrEntropy))
    ELSE IF c = <<>> THEN Out(c, v, Err(ErrNotFound))
    ELSE IF ~addr_canonicalize_ok(sender) THEN Out(c, v, Err(ErrCanonicalize))
    ELSE IF addr_canonicalize(sender) # c[1].owner
         THEN Out(c, v, Err(ErrNotAllowed))
    ELSE LET config_state == c[1]
             entropy_hash == to_binary(sha_256(entropy))
             duplicated == InSeq(entropy_hash, config_state.entropy_hashes)
         IN  IF duplicated THEN Out(c, v, Err(ErrDuplicate))
             ELSE LET c2 == <<[c[1] EXCEPT !.entropy_hashes =
                                   Append(@, entropy_hash)]>>
                      prng_seed == config_state.serenity_seed
                      key == ViewingKeyNew(env, addr_canonicalize(sender),
                                           prng_seed, entropy)
                  IN  IF ~addr_canonicalize_ok(viewer)
                      THEN Out(c2, v, Err(ErrCanonicalize))
                      ELSE Out(c2,
                               write_viewing_key(v, addr_canonicalize(viewer),
                                                 key),
                               Ok(to_binary(key)))

\* Mutant: the transfer also empties the viewing-key store.
try_transfer_ownership_DropsKeys(c, v, sender, new_owner) ==
    IF ~addr_canonicalize_ok(sender) THEN Out(c, v, Err(ErrCanonicalize))
    ELSE IF ~addr_canonicalize_ok(new_owner)
         THEN Out(c, v, Err(ErrCanonicalize))
    ELSE IF c = <<>> THEN Out(c, v, Err(ErrNotFound))
    ELSE IF addr_canonicalize(sender) # c[1].owner
         THEN Out(c, v, Err(ErrNotAllowed))
    ELSE Out(<<[c[1] EXCEPT !.owner = addr_canonicalize(new_owner)]>>, <<>>,
             Ok(<<>>))

\* Mutant: the new owner starts with an empty used-entropy list.
try_transfer_ownership_ClearEntropy(c, v, sender, new_owner) ==
    IF ~addr_canonicalize_ok(sender) THEN Out(c, v, Err(ErrCanonicalize))
    ELSE IF ~addr_canonicalize_ok(new_owner)
         THEN Out(c, v, Err(ErrCanonicalize))
    ELSE IF c = <<>> THEN Out(c, v, Err(ErrNotFound))
    ELSE IF addr_canonicalize(sender) # c[1].owner
         THEN Out(c, v, Err(ErrNotAllowed))
    ELSE Out(<<[c[1] EXCEPT !.owner = addr_canonicalize(new_owner),
                            !.entropy_hashes = <<>>]>>, v, Ok(<<>>))

\* Mutant: the call succeeds but the owner field is not overwritten.
try_transfer_ownership_KeepOwner(c, v, sender, new_owner) ==
    IF ~addr_canonicalize_ok(sender) THEN Out(c, v, Err(ErrCanonicalize))
    ELSE IF ~addr_canonicalize_ok(new_owner)
         THEN Out(c, v, Err(ErrCanonicalize))
    ELSE IF c = <<>> THEN Out(c, v, Err(ErrNotFound))
    ELSE IF addr_canonicalize(sender) # c[1].owner
         THEN Out(c, v, Err(ErrNotAllowed))
    ELSE Out(c, v, Ok(<<>>))

try_transfer_ownership(c, v, sender, new_owner) ==
    IF ~addr_canonicalize_ok(sender) THEN Out(c, v, Err(ErrCanonicalize))
    ELSE IF ~addr_canonicalize_ok(new_owner)
         THEN Out(c, v, Err(ErrCanonicalize))
    ELSE IF c = <<>> THEN Out(c, v, Err(ErrNotFound))
    ELSE IF addr_canonicalize(sender) # c[1].owner
         THEN Out(c, v, Err(ErrNotAllowed))
    ELSE Out(<<[c[1] EXCEPT !.owner = addr_canonicalize(new_owner)]>>, v,
             Ok(<<>>))

\* Mutant: the owner check is missing.
try_revoke_viewing_key_NoOwnerCheck(c, v, sender, viewer) ==
    IF c = <<>> THEN Out(c, v, Err(ErrNotFound))
    ELSE IF ~addr_canonicalize_ok(sender) THEN Out(c, v, Err(ErrCanonicalize))
    ELSE IF ~addr_canonicalize_ok(viewer) THEN Out(c, v, Err(ErrCanonicalize))
    ELSE LET viewer_addr == addr_canonicalize(viewer)
             viewer_key == read_viewing_key(v, viewer_addr)
         IN  IF viewer_key = <<>> THEN Out(c, v, Err(ErrNoKey))
             ELSE Out(c, revoke_viewing_key(v, viewer_addr), Ok(<<>>))

try_revoke_viewing_key(c, v, sender, viewer) ==
    IF c = <<>> THEN Out(c, v, Err(ErrNotFound))
    ELSE IF ~addr_canonicalize_ok(sender) THEN Out(c, v, Err(ErrCanonicalize))
    ELSE IF addr_canonicalize(sender) # c[1].owner
         THEN Out(c, v, Err(ErrNotAllowed))
    ELSE IF ~addr_canonicalize_ok(viewer) THEN Out(c, v, Err(ErrCanonicalize))
    ELSE LET viewer_addr == addr_canonicalize(viewer)
             viewer_key == read_viewing_key(v, viewer_addr)
         IN  IF viewer_key = <<>> THEN Out(c, v, Err(ErrNoKey))
             ELSE Out(c, revoke_viewing_key(v, viewer_addr), Ok(<<>>))

\* Mutant: the response keeps the empty string the local starts with.
query_strongbox_Empty(c) ==
    IF c = <<>> THEN Err(ErrNotFound)
    ELSE Ok(to_binary([strongbox |-> ""]))

query_strongbox(c) ==
    IF c = <<>> THEN Err(ErrNotFound)
    ELSE Ok(to_binary([strongbox |-> c[1].strongbox]))

\* Mutant: the result of the placeholder comparison decides the query.
query_UsesPlaceholder(c, v, behalf, key) ==
    IF ~addr_canonicalize_ok(behalf) THEN Err(ErrCanonicalize)
    ELSE LET canonical_addr == addr_canonicalize(behalf)
             expected_key == read_viewing_key(v, canonical_addr)
         IN  IF expected_key = <<>>
             THEN IF check_viewing_key(key, ZeroHash)
                  THEN query_strongbox(c)
                  ELSE Err(ErrNoMatch)
             ELSE IF check_viewing_key(key, expected_key[1])
                  THEN query_strongbox(c)
                  ELSE Err(ErrNoMatch)

\* Mutant: an identity without a stored hash gets an error of its own.
query_DistinctUnknown(c, v, behalf, key) ==
    IF ~addr_canonicalize_ok(behalf) THEN Err(ErrCanonicalize)
    ELSE LET canonical_addr == addr_canonicalize(behalf)
             expected_key == read_viewing_key(v, canonical_addr)
         IN  IF expected_key = <<>> THEN Err(ErrNoKey)
             ELSE IF check_viewing_key(key, expected_key[1])
                  THEN query_strongbox(c)
                  ELSE Err(ErrNoMatch)

\* QueryMsg::get_validation_params supplies exactly one address.
query(c, v, behalf, key) ==
    IF ~addr_canonicalize_ok(behalf) THEN Err(ErrCanonicalize)
    ELSE LET canonical_addr == addr_canonicalize(behalf)
             expected_key == read_viewing_key(v, canonical_addr)
         IN  IF expected_key = <<>>
             THEN LET discarded == check_viewing_key(key, ZeroHash)
                  IN  Err(ErrNoMatch)
             ELSE IF check_viewing_key(key, expected_key[1])
                  THEN query_strongbox(c)
                  ELSE Err(ErrNoMatch)

\* ------------------------------------------------------- calls and steps
\* Every key ViewingKey::new can return within the bounds.
DerivedKeys ==
    {ViewingKeyNew(env, addr_canonicalize(s), sha_256(b64_encode(seed)), e) :
        env \in Envs, s \in {a \in Addrs : addr_canonicalize_ok(a)},
        seed \in {x \in SeedInputs : Len(x) = INITIAL_SEED_LEN},
        e \in {x \in EntropyInputs : Len(x) = ENTROPY_LEN}}
\* Keys no mint returns.
LiteralKeys == {LiteralKey("wrong"), ZeroPreimage}
CandidateKeys == DerivedKeys \cup LiteralKeys

IssuedKeys == {p.key : p \in issued}
\* Bookkeeping of the history variable active.
Put(f, a, k) == [x \in DOMAIN f \cup {a} |-> IF x = a THEN k ELSE f[x]]
Drop(f, a) == [x \in DOMAIN f \ {a} |-> f[x]]
Held(f, a) == IF a \in DOMAIN f THEN {f[a]} ELSE {}
HadKey == {p.viewer : p \in issued}

\* The record of a call: the entry point, its result and, when it succeeded,
\* the caller and the address and key it was about (a query's candidate key
\* is recorded when it fails, too).
Call(op, res, sender, addr, key) ==
    [op |-> op, ok |-> res.ok, err |-> res.err,
     sender |-> IF res.ok THEN sender ELSE "",
     addr |-> IF res.ok THEN addr ELSE "",
     key |-> IF res.ok THEN key ELSE <<>>]

Commit(out, call) ==
    /\ config' = out.config
    /\ viewing_keys' = out.viewing_keys
    /\ last' = call

Init ==
    /\ config = <<>>
    /\ viewing_keys = <<>>
    /\ last = Call("none", Ok(<<>>), "", "", <<>>)
    /\ issued = {}
    /\ last_value = ""
    /\ instantiations = 0
    /\ active = <<>>
    /\ dead = {}

InstantiateCall ==
    \E sender \in Senders, seed \in SeedInputs :
       LET out == instantiate(config, viewing_keys, sender, seed)
       IN  /\ Commit(out, Call("instantiate", out.res, sender, "", <<>>))
           /\ instantiations' = instantiations + (IF out.res.ok THEN 1 ELSE 0)
           /\ last_value' = IF out.res.ok THEN "" ELSE last_value
           /\ UNCHANGED <<issued, active, dead>>

\* The host runs instantiate when the contract instance is created, and
\* never again on an instance that exists.
Instantiate ==
    /\ config = <<>>
    /\ InstantiateCall

UpdateStrongbox ==
    \E sender \in Senders, strongbox \in StrongboxInputs :
       LET out == try_update_strongbox(config, viewing_keys, sender, strongbox)
       IN  /\ Commit(out, Call("update_strongbox", out.res, sender, "", <<>>))
           /\ last_value' = IF out.res.ok THEN strongbox ELSE last_value
           /\ UNCHANGED <<issued, instantiations, active, dead>>

CreateViewingKey ==
    \E env \in Envs, sender \in Senders, entropy \in EntropyInputs,
       viewer \in Addrs :
       LET out == try_create_viewing_key(config, viewing_keys, env, sender,
                                         entropy, viewer)
           key == IF out.res.ok THEN out.res.data[2] ELSE <<>>
       IN  /\ Commit(out, Call("create_viewing_key", out.res, sender, viewer,
                               key))
           /\ issued' = IF out.res.ok
                        THEN issued \cup
                             {[viewer |-> addr_canonicalize(viewer),
                               key |-> key, entropy |-> entropy,
                               owner |-> addr_canonicalize(sender)]}
                        ELSE issued
           /\ active' = IF out.res.ok
                        THEN Put(active, addr_canonicalize(viewer), key)
                        ELSE active
           /\ dead' = IF out.res.ok
                      THEN dead \cup Held(active, addr_canonicalize(viewer))
                      ELSE dead
           /\ UNCHANGED <<last_value, instantiations>>

TransferOwnership ==
    /\ \E sender \in Senders, new_owner \in Addrs :
          LET out == try_transfer_ownership(config, viewing_keys, sender,
                                            new_owner)
          IN  Commit(out, Call("transfer_ownership", out.res, sender,
                               new_owner, <<>>))
    /\ UNCHANGED <<issued, last_value, instantiations, active, dead>>

RevokeViewingKey ==
    /\ \E sender \in Senders, viewer \in Addrs :
          LET out == try_revoke_viewing_key(config, viewing_keys, sender,
                                            viewer)
          IN  /\ Commit(out, Call("revoke_viewing_key", out.res, sender,
                                  viewer, <<>>))
              /\ active' = IF out.res.ok
                           THEN Drop(active, addr_canonicalize(viewer))
                           ELSE active
              /\ dead' = IF out.res.ok
                         THEN dead \cup Held(active, addr_canonicalize(viewer))
                         ELSE dead
    /\ UNCHANGED <<issued, last_value, instantiations>>

\* Mutant: a failed query drops the entry it was compared with.
GetStrongbox_DropsOnFailure ==
    /\ \E behalf \in Addrs, key \in IssuedKeys \cup LiteralKeys :
          LET res == query(config, viewing_keys, behalf, key)
              store == IF res.ok \/ ~addr_canonicalize_ok(behalf)
                       THEN viewing_keys
                       ELSE revoke_viewing_key(viewing_keys,
                                               addr_canonicalize(behalf))
          IN  Commit(Out(config, store, res),
                     [Call("get_strongbox", res, "", behalf, key)
                         EXCEPT !.key = key])
    /\ UNCHANGED <<issued, last_value, instantiations, active, dead>>

\* Callers present keys they were given, or strings no mint produced.
GetStrongbox ==
    /\ \E behalf \in Addrs, key \in IssuedKeys \cup LiteralKeys :
          LET res == query(config, viewing_keys, behalf, key)
          IN  Commit(Out(config, viewing_keys, res),
                     [Call("get_strongbox", res, "", behalf, key)
                         EXCEPT !.key = key])
    /\ UNCHANGED <<issued, last_value, instantiations, active, dead>>

Next ==
    \/ Instantiate
    \/ UpdateStrongbox
    \/ CreateViewingKey
    \/ TransferOwnership
    \/ RevokeViewingKey
    \/ GetStrongbox

Spec == Init /\ [][Next]_vars

\* A second specification, for what instantiate does when it is called on
\* storage that already holds a configuration record: instantiate, repeated
\* instantiate, and the two operations that write the owner and the value.
Reinstantiate ==
    /\ config # <<>>
    /\ instantiations < MaxInstantiations
    /\ InstantiateCall

NextReinit ==
    \/ Instantiate
    \/ Reinstantiate
    \/ UpdateStrongbox
    \/ TransferOwnership

SpecReinit == Init /\ [][NextReinit]_vars

\* ----------------------------------------------------------------- claims
\* Addresses that canonicalize, i.e. that name an identity.
Identities == {a \in Addrs : addr_canonicalize_ok(a)}
Owner == config[1].owner
IsOwner(a) == addr_canonicalize(a) = Owner
AuthFailure == Err(ErrNoMatch)
Unchanged(out) == out.config = config /\ out.viewing_keys = viewing_keys

\* C1: right after a successful CreateViewingKey(entropy, viewer = B) that
\* returned K, GetStrongbox(B, K) succeeds and GetStrongbox(X, K) fails with
\* the authentication error for every identity X other than B.
C1_FreshKeyOnlyForItsViewer ==
    (last.op = "create_viewing_key" /\ last.ok) =>
        /\ query(config, viewing_keys, last.addr, last.key).ok
        /\ \A X \in Identities :
              addr_canonicalize(X) # addr_canonicalize(last.addr) =>
                 query(config, viewing_keys, X, last.key) = AuthFailure

\* A mint has just succeeded while another identity holds a key of its own.
C1_Witness ==
    /\ last.op = "create_viewing_key" /\ last.ok
    /\ \E X \in Identities :
          /\ addr_canonicalize(X) # addr_canonicalize(last.addr)
          /\ addr_canonicalize(X) \in DOMAIN viewing_keys

\* C2 as stated: a caller that is not the owner gets "not allowed" from each
\* owner-gated operation for all arguments, and nothing changes.
C2_Original ==
    config # <<>> =>
       \A sender \in Identities : ~IsOwner(sender) =>
          /\ \A sb \in StrongboxInputs :
                LET out == try_update_strongbox(config, viewing_keys, sender,
                                                sb)
                IN  out.res = Err(ErrNotAllowed) /\ Unchanged(out)
          /\ \A a \in Addrs :
                LET out == try_transfer_ownership(config, viewing_keys, sender,
                                                  a)
                IN  out.res = Err(ErrNotAllowed) /\ Unchanged(out)
          /\ \A a \in Addrs :
                LET out == try_revoke_viewing_key(config, viewing_keys, sender,
                                                  a)
                IN  out.res = Err(ErrNotAllowed) /\ Unchanged(out)
          /\ \A env \in Envs, e \in EntropyInputs, a \in Addrs :
                LET out == try_create_viewing_key(config, viewing_keys, env,
                                                  sender, e, a)
                IN  out.res = Err(ErrNotAllowed) /\ Unchanged(out)

\* C2 (amended): a caller that is not the owner fails in each owner-gated
\* operation and nothing changes; the error is "not allowed", except that
\* CreateViewingKey with wrong-length entropy reports the validation error
\* and TransferOwnership with a new_owner that does not canonicalize reports
\* the canonicalization error, both raised before the owner check.
C2_NonOwnerRejected ==
    config # <<>> =>
       \A sender \in Identities : ~IsOwner(sender) =>
          /\ \A sb \in StrongboxInputs :
                LET out == try_update_strongbox(config, viewing_keys, sender,
                                                sb)
                IN  out.res = Err(ErrNotAllowed) /\ Unchanged(out)
          /\ \A a \in Addrs :
                LET out == try_transfer_ownership(config, viewing_keys, sender,
                                                  a)
                IN  /\ out.res = IF addr_canonicalize_ok(a)
                                 THEN Err(ErrNotAllowed)
                                 ELSE Err(ErrCanonicalize)
                    /\ Unchanged(out)
          /\ \A a \in Addrs :
                LET out == try_revoke_viewing_key(config, viewing_keys, sender,
                                                  a)
                IN  out.res = Err(ErrNotAllowed) /\ Unchanged(out)
          /\ \A env \in Envs, e \in EntropyInputs, a \in Addrs :
                LET out == try_create_viewing_key(config, viewing_keys, env,
                                                  sender, e, a)
                IN  /\ out.res = IF Len(e) = ENTROPY_LEN
                                 THEN Err(ErrNotAllowed)
                                 ELSE Err(ErrEntropy)
                    /\ Unchanged(out)

\* A caller other than the owner has just been refused a revocation of a key
\* that exists.
C2_Witness ==
    /\ last.op = "revoke_viewing_key"
    /\ last.err = ErrNotAllowed
    /\ viewing_keys # <<>>

\* C3: in a step that is a successful RevokeViewingKey(viewer), every key that
\* authenticated for viewer before the step fails after it, with the error an
\* identity that never had a key gets.
C3_RevokedKeyFailsLikeUnknown ==
    [][(last'.op = "revoke_viewing_key" /\ last'.ok) =>
          \A k \in CandidateKeys :
             query(config, viewing_keys, last'.addr, k).ok =>
                /\ query(config', viewing_keys', last'.addr, k) = AuthFailure
                /\ \A X \in Identities :
                      addr_canonicalize(X) \notin HadKey' =>
                         query(config', viewing_keys', X, k) =
                            query(config', viewing_keys', last'.addr, k)]_vars

\* A revocation has just succeeded and some identity never had a key.
C3_Witness ==
    /\ last.op = "revoke_viewing_key" /\ last.ok
    /\ addr_canonicalize(last.addr) \in HadKey
    /\ \E X \in Identities : addr_canonicalize(X) \notin HadKey

ValidEntropy == {e \in EntropyInputs : Len(e) = ENTROPY_LEN}
Used(e) == InSeq(to_binary(sha_256(e)), config[1].entropy_hashes)

\* C4: once a mint with entropy E has succeeded, no CreateViewingKey with E
\* succeeds and the owner's gets the conflict error whatever the viewer; the
\* owner's mint with valid-length entropy that is not yet used, for a viewer
\* that is an identity, succeeds; and mints with different entropy returned
\* different keys with different hashes.
C4_EntropyOnce ==
    config # <<>> =>
       /\ \A p \in issued, env \in Envs, sender \in Identities,
             viewer \in Addrs :
             LET out == try_create_viewing_key(config, viewing_keys, env,
                                               sender, p.entropy, viewer)
             IN  /\ ~out.res.ok
                 /\ IsOwner(sender) => out.res = Err(ErrDuplicate)
       /\ \A e \in ValidEntropy, env \in Envs, sender \in Identities,
             viewer \in Identities :
             (IsOwner(sender) /\ ~Used(e)) =>
                try_create_viewing_key(config, viewing_keys, env, sender, e,
                                       viewer).res.ok
       /\ \A p, q \in issued :
             p.entropy # q.entropy =>
                p.key # q.key /\ sha_256(p.key) # sha_256(q.key)

\* Two mints with different entropy have succeeded and a mint that reused
\* entropy has just been refused.
C4_Witness ==
    /\ \E p, q \in issued : p.entropy # q.entropy
    /\ last.op = "create_viewing_key"
    /\ last.err = ErrDuplicate

\* C5 as stated: every failing GetStrongbox returns one and the same error.
C5_Original ==
    (config # <<>> /\ last.op = "get_strongbox" /\ ~last.ok) =>
       last.err = ErrNoMatch

\* C5 (amended): every failing GetStrongbox whose claimed address
\* canonicalizes returns one and the same error, whether the identity has no
\* stored key, has a stored key and the candidate is wrong, or had its key
\* revoked; a claimed address that does not canonicalize fails with the
\* canonicalization error instead.
C5_UniformFailure ==
    \A behalf \in Addrs, k \in CandidateKeys :
       LET r == query(config, viewing_keys, behalf, k)
       IN  ~r.ok => r = IF addr_canonicalize_ok(behalf)
                        THEN AuthFailure
                        ELSE Err(ErrCanonicalize)

\* A query has just failed while one identity holds a key, another had its
\* key removed and a third never had one.
C5_Witness ==
    /\ last.op = "get_strongbox" /\ last.err = ErrNoMatch
    /\ viewing_keys # <<>>
    /\ HadKey \ DOMAIN viewing_keys # {}
    /\ \E X \in Identities : addr_canonicalize(X) \notin HadKey

\* C6: every call that fails leaves the configuration record and the
\* viewing-key map as they were; a CreateViewingKey that returns an error at
\* any step has neither added to used_entropy_hashes nor written a viewer hash.
C6_FailureChangesNothing ==
    [][~last'.ok => (config' = config /\ viewing_keys' = viewing_keys)]_vars

\* C7: a GetStrongbox that succeeds returns exactly the value of the last
\* successful UpdateStrongbox (the empty string before the first), whatever
\* mints, revocations, transfers and failed calls came in between.
C7_RoundTrip ==
    \A behalf \in Addrs, k \in CandidateKeys :
       LET r == query(config, viewing_keys, behalf, k)
       IN  r.ok => r.data = to_binary([strongbox |-> last_value])

\* A query has just succeeded after a successful update.
C7_Witness ==
    /\ last.op = "get_strongbox" /\ last.ok
    /\ last_value # ""

OwnerGatedAllNotAllowed(sender) ==
    /\ \A sb \in StrongboxInputs :
          try_update_strongbox(config, viewing_keys, sender, sb).res =
             Err(ErrNotAllowed)
    /\ \A a \in Addrs :
          try_transfer_ownership(config, viewing_keys, sender, a).res =
             Err(ErrNotAllowed)
    /\ \A a \in Addrs :
          try_revoke_viewing_key(config, viewing_keys, sender, a).res =
             Err(ErrNotAllowed)
    /\ \A env \in Envs, e \in EntropyInputs, a \in Addrs :
          try_create_viewing_key(config, viewing_keys, env, sender, e,
                                 a).res = Err(ErrNotAllowed)

OwnerGatedRejected(sender) ==
    /\ \A sb \in StrongboxInputs :
          try_update_strongbox(config, viewing_keys, sender, sb).res =
             Err(ErrNotAllowed)
    /\ \A a \in Addrs :
          try_transfer_ownership(config, viewing_keys, sender, a).res =
             IF addr_canonicalize_ok(a) THEN Err(ErrNotAllowed)
             ELSE Err(ErrCanonicalize)
    /\ \A a \in Addrs :
          try_revoke_viewing_key(config, viewing_keys, sender, a).res =
             Err(ErrNotAllowed)
    /\ \A env \in Envs, e \in EntropyInputs, a \in Addrs :
          try_create_viewing_key(config, viewing_keys, env, sender, e,
                                 a).res =
             IF Len(e) = ENTROPY_LEN THEN Err(ErrNotAllowed)
             ELSE Err(ErrEntropy)

PassesOwnerCheck(sender) ==
    /\ \A sb \in StrongboxInputs :
          try_update_strongbox(config, viewing_keys, sender, sb).res.err #
             ErrNotAllowed
    /\ \A a \in Addrs :
          try_transfer_ownership(config, viewing_keys, sender, a).res.err #
             ErrNotAllowed
    /\ \A a \in Addrs :
          try_revoke_viewing_key(config, viewing_keys, sender, a).res.err #
             ErrNotAllowed
    /\ \A env \in Envs, e \in EntropyInputs, a \in Addrs :
          try_create_viewing_key(config, viewing_keys, env, sender, e,
                                 a).res.err # ErrNotAllowed

ExactlyOneOwner ==
    config # <<>> =>
       Cardinality({a \in Identities :
                      try_update_strongbox(config, viewing_keys, a,
                                           "hello").res.ok}) = 1

TransferredAway ==
    /\ last.op = "transfer_ownership" /\ last.ok
    /\ addr_canonicalize(last.addr) # addr_canonicalize(last.sender)

\* C8 as stated: after a successful TransferOwnership to another identity,
\* every owner-gated operation by the former owner fails with "not allowed",
\* the new owner passes the owner check, and exactly one identity is owner.
C8_Original ==
    /\ TransferredAway =>
          OwnerGatedAllNotAllowed(last.sender) /\ PassesOwnerCheck(last.addr)
    /\ ExactlyOneOwner

\* C8 (amended): after a successful TransferOwnership to another identity,
\* every owner-gated operation by the former owner fails, with "not allowed"
\* except where a check precedes the owner check (CreateViewingKey with
\* wrong-length entropy: the validation error; TransferOwnership with a
\* new_owner that does not canonicalize: the canonicalization error); the
\* new owner passes the owner check; and exactly one identity is owner.
C8_OwnershipMoves ==
    /\ TransferredAway =>
          OwnerGatedRejected(last.sender) /\ PassesOwnerCheck(last.addr)
    /\ ExactlyOneOwner

\* Ownership has just moved to another identity.
C8_Witness == TransferredAway

\* C9: instantiate with a seed whose length is not 32 fails with the
\* validation error and creates no configuration record; with a seed of
\* length 32 it succeeds and stores the caller as owner, the empty string as
\* strongbox value and no entropy hashes.
C9_Initialize ==
    /\ \A sender \in Identities, seed \in SeedInputs :
          LET out == instantiate(config, viewing_keys, sender, seed)
          IN  IF Len(seed) # INITIAL_SEED_LEN
              THEN out.res = Err(ErrSeed) /\ Unchanged(out)
              ELSE /\ out.res.ok
                   /\ out.config = <<State(addr_canonicalize(sender), "",
                                           sha_256(b64_encode(seed)), <<>>)>>
                   /\ out.viewing_keys = viewing_keys
    /\ (last.op = "instantiate" /\ ~last.ok) =>
          last.err = ErrSeed /\ config = <<>>
    /\ (last.op = "instantiate" /\ last.ok) =>
          /\ config # <<>>
          /\ config[1].owner = addr_canonicalize(last.sender)
          /\ config[1].strongbox = ""
          /\ config[1].entropy_hashes = <<>>

\* An instantiate with a wrong-length seed has just failed.
C9_Witness ==
    /\ last.op = "instantiate" /\ last.err = ErrSeed
    /\ config = <<>>

\* C10: once a configuration record exists, an instantiate call does not
\* replace it.
C10_InitializeOnce ==
    [][(config # <<>> /\ last'.op = "instantiate") => config' = config]_vars

HasKey(a) == addr_canonicalize(a) \in DOMAIN viewing_keys

\* C11: RevokeViewingKey(viewer) by the owner fails with the not-found error
\* and changes nothing when no hash is stored for the viewer; otherwise it
\* removes exactly that viewer's entry and leaves every other entry and the
\* configuration record unchanged.
C11_RevokeExactlyOne ==
    config # <<>> =>
       \A sender \in Identities, viewer \in Identities :
          IsOwner(sender) =>
             LET out == try_revoke_viewing_key(config, viewing_keys, sender,
                                               viewer)
                 va == addr_canonicalize(viewer)
             IN  IF ~HasKey(viewer)
                 THEN out.res = Err(ErrNoKey) /\ Unchanged(out)
                 ELSE /\ out.res.ok
                      /\ out.config = config
                      /\ DOMAIN out.viewing_keys = DOMAIN viewing_keys \ {va}
                      /\ \A a \in DOMAIN out.viewing_keys :
                            out.viewing_keys[a] = viewing_keys[a]

\* A revocation has just succeeded and another viewer's entry is still there.
C11_Witness ==
    /\ last.op = "revoke_viewing_key" /\ last.ok
    /\ ~HasKey(last.addr)
    /\ viewing_keys # <<>>

\* C12: CreateViewingKey reports wrong-length entropy with the validation
\* error also to a caller that is not the owner; it answers a caller that is
\* not the owner and sends valid-length entropy with "not allowed" also when
\* the entropy was already used; and it reports the conflict error exactly to
\* the owner sending valid-length entropy that was already used.
C12_ErrorPrecedence ==
    config # <<>> =>
       \A env \in Envs, sender \in Identities, e \in EntropyInputs,
          viewer \in Addrs :
          LET res == try_create_viewing_key(config, viewing_keys, env, sender,
                                            e, viewer).res
          IN  /\ Len(e) # ENTROPY_LEN => res = Err(ErrEntropy)
              /\ (Len(e) = ENTROPY_LEN /\ ~IsOwner(sender)) =>
                    res = Err(ErrNotAllowed)
              /\ res = Err(ErrDuplicate) <=>
                    (Len(e) = ENTROPY_LEN /\ IsOwner(sender) /\ Used(e))

\* A caller that is not the owner has just been refused while every
\* valid-length entropy of the model was already used.
C12_Witness ==
    /\ last.op = "create_viewing_key"
    /\ last.err = ErrNotAllowed
    /\ \A e \in ValidEntropy : Used(e)

\* C13: GetStrongbox for an identity with no stored hash fails whatever the
\* candidate key is, also for the candidate whose hash is the all-zero
\* placeholder the dummy verification runs against.
C13_UnknownIdentityAlwaysFails ==
    /\ check_viewing_key(ZeroPreimage, ZeroHash)
    /\ \A behalf \in Identities, k \in CandidateKeys :
          ~HasKey(behalf) =>
             query(config, viewing_keys, behalf, k) = AuthFailure

\* A query with the placeholder's preimage has just failed on an initialized
\* contract in which no identity has a stored hash.
C13_Witness ==
    /\ config # <<>>
    /\ viewing_keys = <<>>
    /\ last.op = "get_strongbox" /\ ~last.ok
    /\ last.err = ErrNoMatch
    /\ last.key = ZeroPreimage

IsPrefix(s, t) == Len(s) <= Len(t) /\ \A i \in 1..Len(s) : s[i] = t[i]
Initialized == config # <<>>
MintStep == last'.op = "create_viewing_key" /\ last'.ok

\* C14: used_entropy_hashes is append-only in every step of UpdateStrongbox,
\* TransferOwnership, CreateViewingKey, RevokeViewingKey and GetStrongbox; a
\* successful CreateViewingKey appends exactly the hash of its entropy; and
\* no entropy value is accepted by two successful mints.
C14_EntropyAppendOnly ==
    /\ [][(Initialized /\ Initialized') =>
             /\ IsPrefix(config[1].entropy_hashes, config'[1].entropy_hashes)
             /\ MintStep =>
                   \E p \in issued' \ issued :
                      config'[1].entropy_hashes =
                         Append(config[1].entropy_hashes,
                                to_binary(sha_256(p.entropy)))]_vars
    /\ [](\A p, q \in issued : p.entropy = q.entropy => p = q)

\* Two mints have succeeded under different owners, i.e. across a transfer.
C14_Witness ==
    /\ \E p, q \in issued : p.owner # q.owner
    /\ Len(config[1].entropy_hashes) = 2

ErrorMessages ==
    {ErrSeed, ErrNotAllowed, ErrEntropy, ErrDuplicate, ErrNoKey, ErrNoMatch,
     ErrCanonicalize, ErrNotFound}

\* A response that carries nothing but a message.
Bare(res) == res.data = <<>> /\ res.err \in ErrorMessages \cup {""}

\* C15: the stored seed is changed by no step of UpdateStrongbox,
\* TransferOwnership, CreateViewingKey, RevokeViewingKey or GetStrongbox,
\* successful or not, and no response carries it: the responses of update,
\* transfer and revoke carry no data, that of a mint carries the prefixed key
\* and that of a query carries the strongbox value only.
C15_SeedFixedAndHidden ==
    /\ [][(Initialized /\ Initialized') =>
             config'[1].serenity_seed = config[1].serenity_seed]_vars
    /\ [](Initialized =>
           /\ \A sender \in Identities, sb \in StrongboxInputs :
                 Bare(try_update_strongbox(config, viewing_keys, sender,
                                           sb).res)
           /\ \A sender \in Identities, a \in Addrs :
                 /\ Bare(try_transfer_ownership(config, viewing_keys, sender,
                                                a).res)
                 /\ Bare(try_revoke_viewing_key(config, viewing_keys, sender,
                                                a).res)
           /\ \A env \in Envs, sender \in Identities, e \in EntropyInputs,
                 a \in Addrs :
                 LET res == try_create_viewing_key(config, viewing_keys, env,
                                                   sender, e, a).res
                 IN  IF res.ok
                     THEN /\ res.data[1] = "bin"
                          /\ res.data[2][1] = VIEWING_KEY_PREFIX
                          /\ res.data[2] # config[1].serenity_seed
                     ELSE Bare(res)
           /\ \A behalf \in Addrs, k \in CandidateKeys :
                 LET res == query(config, viewing_keys, behalf, k)
                 IN  IF res.ok
                     THEN res.data =
                             to_binary([strongbox |-> config[1].strongbox])
                     ELSE Bare(res))

\* An update has just succeeded on a contract that has issued a key.
C15_Witness ==
    /\ last.op = "update_strongbox" /\ last.ok
    /\ issued # {}

\* C16: after initialization the owner changes only in a step that is a
\* successful TransferOwnership by the current owner, the strongbox value only
\* in a step that is a successful UpdateStrongbox by the current owner, and
\* CreateViewingKey and RevokeViewingKey steps change neither.
C16_OwnerAndValueFrame ==
    [][(Initialized /\ Initialized') =>
          /\ config'[1].owner # config[1].owner =>
                /\ last'.op = "transfer_ownership" /\ last'.ok
                /\ addr_canonicalize(last'.sender) = config[1].owner
          /\ config'[1].strongbox # config[1].strongbox =>
                /\ last'.op = "update_strongbox" /\ last'.ok
                /\ addr_canonicalize(last'.sender) = config[1].owner
          /\ last'.op \in {"create_viewing_key", "revoke_viewing_key"} =>
                /\ config'[1].owner = config[1].owner
                /\ config'[1].strongbox = config[1].strongbox]_vars

\* Ownership has just moved away from an owner that had set a value.
C16_Witness ==
    /\ last.op = "transfer_ownership" /\ last.ok
    /\ config[1].owner # addr_canonicalize(last.sender)
    /\ last_value # ""

\* C17: a GetStrongbox step, successful or not and whether or not the claimed
\* identity has a stored hash, leaves the configuration record and the
\* viewing-key map unchanged.
C17_QueryReadOnly ==
    [][last'.op = "get_strongbox" =>
          (config' = config /\ viewing_keys' = viewing_keys)]_vars

\* A query presenting an issued key has just failed while a hash is stored.
C17_Witness ==
    /\ last.op = "get_strongbox" /\ ~last.ok
    /\ last.err = ErrNoMatch
    /\ last.key \in IssuedKeys
    /\ viewing_keys # <<>>

Authenticates(c, v, a, k) == query(c, v, a, k).ok

\* C18: the map holds at most one entry per viewer: after a successful
\* CreateViewingKey for a viewer the returned key authenticates for that
\* viewer and no other key does, in particular not the key a previous mint
\* returned for the same viewer.
C18_RemintOverwrites ==
    [][MintStep =>
          /\ Authenticates(config', viewing_keys', last'.addr, last'.key)
          /\ \A k \in CandidateKeys :
                k # last'.key =>
                   ~Authenticates(config', viewing_keys', last'.addr, k)
          /\ \A p \in issued :
                p.viewer = addr_canonicalize(last'.addr) =>
                   ~Authenticates(config', viewing_keys', last'.addr, p.key)
          /\ DOMAIN viewing_keys' =
                DOMAIN viewing_keys \cup {addr_canonicalize(last'.addr)}]_vars

\* A mint has just succeeded for a viewer that was given another key before.
C18_Witness ==
    /\ last.op = "create_viewing_key" /\ last.ok
    /\ \E p \in issued :
          p.viewer = addr_canonicalize(last.addr) /\ p.key # last.key

\* C19: the key a mint returns is derived from the canonical identity of the
\* viewer it is minted for (with the seed, the block and the entropy): two
\* mints that differ only in the viewer return different keys.
C19_KeyDependsOnViewer ==
    Initialized =>
       \A env \in Envs, sender \in Identities, e \in EntropyInputs,
          v1 \in Identities, v2 \in Identities :
          LET r1 == try_create_viewing_key(config, viewing_keys, env, sender,
                                           e, v1).res
              r2 == try_create_viewing_key(config, viewing_keys, env, sender,
                                           e, v2).res
          IN  (v1 # v2 /\ r1.ok /\ r2.ok) => r1.data # r2.data

\* C20: every entry of the viewing-key map is the one-way hash of a key a
\* successful mint returned for that viewer, an entry changes only in a
\* successful mint for its viewer, which stores the hash of the key it
\* returns, and is removed only by a successful revocation of its viewer; no
\* entry and no used-entropy hash is a plaintext key.
C20_OnlyHashStored ==
    /\ [](\A a \in DOMAIN viewing_keys :
            /\ \E p \in issued : p.viewer = a /\ viewing_keys[a] = sha_256(p.key)
            /\ viewing_keys[a] \notin CandidateKeys)
    /\ [](Initialized =>
            \A i \in 1..Len(config[1].entropy_hashes) :
               config[1].entropy_hashes[i] \notin CandidateKeys)
    /\ [][/\ MintStep =>
                viewing_keys'[addr_canonicalize(last'.addr)] =
                   sha_256(last'.key)
          /\ \A a \in DOMAIN viewing_keys' :
                (a \notin DOMAIN viewing_keys \/ viewing_keys'[a] # viewing_keys[a])
                   => (MintStep /\ a = addr_canonicalize(last'.addr))
          /\ \A a \in DOMAIN viewing_keys \ DOMAIN viewing_keys' :
                /\ last'.op = "revoke_viewing_key" /\ last'.ok
                /\ a = addr_canonicalize(last'.addr)]_vars

\* A mint has just succeeded and its viewer holds the hash of its second key.
C20_Witness ==
    /\ \E p, q \in issued :
          /\ p.viewer = q.viewer /\ p.key # q.key
          /\ p.viewer \in DOMAIN viewing_keys
    /\ last.op = "create_viewing_key" /\ last.ok

\* C21: GetStrongbox(v, k) returns the strongbox value only if k was returned
\* by a successful CreateViewingKey for viewer v, sent by the identity that
\* was owner at that time, with no successful RevokeViewingKey(v) and no
\* later successful CreateViewingKey for v since; so every query fails before
\* the first successful mint, and being owner gives no read access.
C21_NoUnauthorizedDisclosure ==
    /\ [](\A a \in Identities, k \in CandidateKeys :
            Authenticates(config, viewing_keys, a, k) =>
               /\ addr_canonicalize(a) \in DOMAIN active
               /\ active[addr_canonicalize(a)] = k
               /\ \E p \in issued : p.viewer = addr_canonicalize(a) /\ p.key = k)
    /\ [](issued = {} =>
            \A a \in Addrs, k \in CandidateKeys :
               ~Authenticates(config, viewing_keys, a, k))
    /\ [][(MintStep /\ Initialized) =>
             addr_canonicalize(last'.sender) = config[1].owner]_vars

\* A query has just succeeded for one viewer while the owner holds no key
\* and a key issued earlier is no longer valid.
C21_Witness ==
    /\ last.op = "get_strongbox" /\ last.ok
    /\ Owner \notin DOMAIN active
    /\ dead # {}

\* C22: a TransferOwnership step leaves the viewing-key map and
\* used_entropy_hashes unchanged, so every key authenticates after it exactly
\* as before; a key stops authenticating for its viewer only in a successful
\* revocation of, or mint for, that viewer by the owner of the time; and
\* right after a transfer the new owner's revocation of any stored key
\* succeeds.
C22_TransferKeepsKeys ==
    /\ [][(last'.op = "transfer_ownership" /\ Initialized) =>
             /\ viewing_keys' = viewing_keys
             /\ config'[1].entropy_hashes = config[1].entropy_hashes
             /\ \A a \in Identities, k \in CandidateKeys :
                   Authenticates(config', viewing_keys', a, k) <=>
                      Authenticates(config, viewing_keys, a, k)]_vars
    /\ [][\A a \in Identities, k \in CandidateKeys :
             (Authenticates(config, viewing_keys, a, k)
                /\ ~Authenticates(config', viewing_keys', a, k)) =>
                /\ last'.op \in {"revoke_viewing_key", "create_viewing_key"}
                /\ last'.ok
                /\ addr_canonicalize(last'.addr) = addr_canonicalize(a)
                /\ addr_canonicalize(last'.sender) = config[1].owner]_vars
    /\ [](TransferredAway =>
            \A a \in Identities :
               HasKey(a) =>
                  try_revoke_viewing_key(config, viewing_keys, last.addr,
                                         a).res.ok)

\* Ownership has just moved to another identity while a key minted under the
\* former owner is the valid key of its viewer.
C22_Witness ==
    /\ TransferredAway
    /\ \E p \in issued :
          /\ p.owner = addr_canonicalize(last.sender)
          /\ p.viewer \in DOMAIN active
          /\ active[p.viewer] = p.key

\* C23: a key that was revoked or overwritten authenticates for no identity
\* in any later state reached by UpdateStrongbox, TransferOwnership,
\* CreateViewingKey, RevokeViewingKey and GetStrongbox (the derivation being
\* injective): its entropy stays in used_entropy_hashes and no later mint
\* returns it.
C23_DeadKeyStaysDead ==
    /\ [](\A k \in dead, a \in Identities :
            ~Authenticates(config, viewing_keys, a, k))
    /\ [](\A p \in issued : p.key \in dead => Used(p.entropy))
    /\ [][/\ dead \subseteq dead'
          /\ MintStep => last'.key \notin dead]_vars

\* A mint has just succeeded for one viewer after another viewer's key was
\* revoked.
C23_Witness ==
    /\ last.op = "create_viewing_key" /\ last.ok
    /\ dead # {}
    /\ \E p \in issued : p.key \in dead /\ p.viewer # addr_canonicalize(last.addr)
====
